---------------------------- MODULE Spec2Model ----------------------------
(***************************************************************************)
(* The linear congruential generators of 08-extension-types.ipynb:         *)
(* PyLCG (Python integers, floored %), CyLCG and CyLCGOpen (C long         *)
(* fields, % compiled under cdivision(True)).                              *)
(*                                                                         *)
(* The default modulus 2**32 and the products a * x do not fit the         *)
(* integers of the model checker, so every program integer is held as a    *)
(* sign and a little-endian sequence of base-256 digits, and the program's *)
(* arithmetic is carried out digit by digit.                               *)
(***************************************************************************)
EXTENDS Integers, Sequences, FiniteSets, TLC

VARIABLES params, objs, out, call, ret

vars == <<params, objs, out, call, ret>>

(***************************************************************************)
(* Integers of arbitrary size (the Python int).                            *)
(***************************************************************************)
Base == 2 ^ 8

RECURSIVE Trim(_)
Trim(s) == IF s = <<>> THEN <<>>
           ELSE IF s[Len(s)] = 0 THEN Trim(SubSeq(s, 1, Len(s) - 1))
           ELSE s

RECURSIVE NatOf(_)
NatOf(n) == IF n = 0 THEN <<>> ELSE <<n % Base>> \o NatOf(n \div Base)

RECURSIVE AddC(_, _, _)
AddC(u, v, carry) ==
    IF u = <<>> /\ v = <<>>
    THEN (IF carry = 0 THEN <<>> ELSE <<carry>>)
    ELSE LET du == IF u = <<>> THEN 0 ELSE Head(u)
             dv == IF v = <<>> THEN 0 ELSE Head(v)
             t  == du + dv + carry
         IN  <<t % Base>> \o AddC(IF u = <<>> THEN <<>> ELSE Tail(u),
                                  IF v = <<>> THEN <<>> ELSE Tail(v),
                                  t \div Base)

NatAdd(u, v) == AddC(u, v, 0)

RECURSIVE SubB(_, _, _)
SubB(u, v, borrow) ==
    IF u = <<>> THEN <<>>
    ELSE LET dv == IF v = <<>> THEN 0 ELSE Head(v)
             t  == Head(u) - dv - borrow
         IN  <<t % Base>> \o SubB(Tail(u),
                                  IF v = <<>> THEN <<>> ELSE Tail(v),
                                  IF t < 0 THEN 1 ELSE 0)

\* u - v for u >= v
NatSub(u, v) == Trim(SubB(u, v, 0))

RECURSIVE NatLess(_, _)
NatLess(u, v) ==
    IF Len(u) # Len(v) THEN Len(u) < Len(v)
    ELSE IF u = <<>> THEN FALSE
    ELSE IF u[Len(u)] # v[Len(v)] THEN u[Len(u)] < v[Len(v)]
    ELSE NatLess(Trim(SubSeq(u, 1, Len(u) - 1)), Trim(SubSeq(v, 1, Len(v) - 1)))

RECURSIVE MulDigit(_, _, _)
MulDigit(v, d, carry) ==
    IF v = <<>> THEN (IF carry = 0 THEN <<>> ELSE <<carry>>)
    ELSE LET t == Head(v) * d + carry
         IN  <<t % Base>> \o MulDigit(Tail(v), d, t \div Base)

Shift(s) == IF s = <<>> THEN <<>> ELSE <<0>> \o s

RECURSIVE NatMul(_, _)
NatMul(u, v) ==
    IF u = <<>> \/ v = <<>> THEN <<>>
    ELSE NatAdd(Trim(MulDigit(v, Head(u), 0)), Shift(NatMul(Tail(u), v)))

\* t mod m for t < 2 * m
Reduce(t, m) == IF NatLess(t, m) THEN t ELSE NatSub(t, m)

\* One step of binary long division: the remainder r < m takes in the bit b
ModBit(r, b, m) == Reduce(AddC(r, r, b), m)

\* ... and the low k bits of the digit d, the most significant first
RECURSIVE ModBits(_, _, _, _)
ModBits(r, d, k, m) ==
    IF k = 0 THEN r
    ELSE ModBits(ModBit(r, (d \div (2 ^ (k - 1))) % 2, m), d, k - 1, m)

\* The remainder r of the digits of v above position i takes in the digits
\* i, i-1, ..., 1
RECURSIVE ModFrom(_, _, _, _)
ModFrom(v, i, r, m) ==
    IF Len(r) >= 0 /\ i = 0 THEN r
    ELSE ModFrom(v, i - 1, ModBits(r, v[i], 8, m), m)

\* v mod m for m > 0; operands of one digit take one operation of the checker
NatMod(v, m) ==
    IF Len(v) <= 1 /\ Len(m) = 1
    THEN NatOf((IF v = <<>> THEN 0 ELSE v[1]) % m[1])
    ELSE ModFrom(v, Len(v), <<>>, m)

Z(neg, mag) == [neg |-> neg /\ mag # <<>>, mag |-> mag]

ZOf(n) == IF n < 0 THEN Z(TRUE, NatOf(-n)) ELSE Z(FALSE, NatOf(n))

Zero == ZOf(0)

ZNeg(u) == Z(~u.neg, u.mag)

ZAdd(u, v) ==
    IF u.neg = v.neg THEN Z(u.neg, NatAdd(u.mag, v.mag))
    ELSE IF NatLess(u.mag, v.mag) THEN Z(v.neg, NatSub(v.mag, u.mag))
    ELSE Z(u.neg, NatSub(u.mag, v.mag))

ZMul(u, v) == Z(u.neg # v.neg, NatMul(u.mag, v.mag))

ZLess(u, v) ==
    IF u.neg # v.neg THEN u.neg
    ELSE IF u.neg THEN NatLess(v.mag, u.mag)
    ELSE NatLess(u.mag, v.mag)

ZLeq(u, v) == u = v \/ ZLess(u, v)

\* Python's %: the result has the sign of the (positive) divisor
FloorRem(neg, r, m) ==
    IF neg /\ r # <<>> THEN [neg |-> FALSE, mag |-> NatSub(m, r)]
    ELSE [neg |-> FALSE, mag |-> r]

PyMod(v, m) == FloorRem(v.neg, NatMod(v.mag, m.mag), m.mag)

\* C's %: the result has the sign of the dividend
CRem(v, m) == Z(v.neg, NatMod(v.mag, m.mag))



(***************************************************************************)
(* The C long of the extension types: `cdef long a, c, m, x`, 8 bytes      *)
(* each, two's complement.  a * x + c is computed in that width; on        *)
(* overflow the build (CPython extensions are compiled with -fwrapv)       *)
(* keeps the low 64 bits.                                                  *)
(***************************************************************************)
LongBytes == 8

\* 2 ** (8 * n)
Pow256(n) == [i \in 1..(n + 1) |-> IF i = n + 1 THEN 1 ELSE 0]

\* 2 ** (8 * n - 1)
SignBit(n) == [i \in 1..n |-> IF i = n THEN Base \div 2 ELSE 0]

\* the low n digits of s
LowBytes(s, n) == Trim(SubSeq(s, 1, IF Len(s) < n THEN Len(s) ELSE n))

\* the signed value of the n-byte two's complement bit pattern u
Signed(u, n) ==
    IF NatLess(u, SignBit(n)) THEN Z(FALSE, u)
    ELSE Z(TRUE, NatSub(Pow256(n), u))

\* the n-byte bit pattern of the value with sign neg and magnitude low
Pattern(neg, low, n) ==
    IF neg /\ low # <<>> THEN NatSub(Pow256(n), low) ELSE low

\* v as an n-byte signed integer; a magnitude of fewer than n digits fits
Wrap(v, n) ==
    IF Len(v.mag) < n THEN v
    ELSE Signed(Pattern(v.neg, LowBytes(v.mag, n), n), n)

\* Mutant of WrapLong: the fields declared int, 4 bytes
WrapInt(v) == Wrap(v, LongBytes \div 2)

WrapLong(v) == Wrap(v, LongBytes)

FitsLong(v) == WrapLong(v) = v

CMul(u, v) == WrapLong(ZMul(u, v))

CAdd(u, v) == WrapLong(ZAdd(u, v))

(***************************************************************************)
(* Bounds of the model.                                                    *)
(***************************************************************************)
\* a ranges over -MaxAbs .. MaxAbs (c over -1 .. 1)
MaxAbs == 1

\* the modulus ranges over -1 .. MaxM, the seed over -1 .. MaxM
MaxM == 3

\* values drawn from one generator
MaxCalls == 3

(***************************************************************************)
(* The constructor arguments.                                              *)
(***************************************************************************)
DefaultA == 1664525

DefaultC == 1013904223

\* 2**32 = 256**4
DefaultM == Z(FALSE, <<0, 0, 0, 0, 1>>)

DefaultSeed == 0

\* seeds of [0, 2**32) tried with the default a, c, m; the last is 2**32 - 1
DefaultSeeds ==
    {ZOf(DefaultSeed), ZOf(1), ZOf(42), ZOf(65536), ZOf(2147483647),
     ZAdd(DefaultM, ZOf(-2)), ZAdd(DefaultM, ZOf(-1))}

DefaultParams ==
    {[a |-> ZOf(DefaultA), c |-> ZOf(DefaultC), m |-> DefaultM, seed |-> s] :
        s \in DefaultSeeds}

SmallParams ==
    {[a |-> ZOf(a), c |-> ZOf(c), m |-> ZOf(m), seed |-> ZOf(s)] :
        a \in -MaxAbs..MaxAbs, c \in -1..1, m \in -1..MaxM, s \in -1..MaxM}

Params == SmallParams \cup DefaultParams

(***************************************************************************)
(* The generators.  Instance 1 is a PyLCG, instance 2 a PyLCG or a CyLCG;  *)
(* both are constructed from the same arguments.  CyLCGOpen repeats the    *)
(* text of CyLCG (its fields are declared public and readonly) and is the  *)
(* class "CyLCG" here.                                                     *)
(***************************************************************************)
Classes == {"PyLCG", "CyLCG"}

Inst == {1, 2}

ClassesOf(i) == IF i = 1 THEN {"PyLCG"} ELSE Classes

NoObject == [cls |-> "none", a |-> Zero, c |-> Zero, m |-> Zero, x |-> Zero]

NoCall == [inst |-> 0, op |-> "none", size |-> <<>>, x0 |-> Zero]

Returned(seq, scalar) == [exc |-> "none", scalar |-> scalar, val |-> seq]

Raised(e) == [exc |-> e, scalar |-> FALSE, val |-> <<>>]

NoReturn == Returned(<<>>, FALSE)

\* Mutant of PyLCG_init: the test m < 0, which lets m = 0 through
PyLCG_init_strict(a, c, m, seed) ==
    IF ZLess(m, Zero)
    THEN [obj |-> NoObject, ret |-> Raised("ValueError")]
    ELSE [obj |-> [cls |-> "PyLCG", a |-> a, c |-> c, m |-> m, x |-> seed],
          ret |-> NoReturn]

\* PyLCG.__init__
PyLCG_init(a, c, m, seed) ==
    IF ZLeq(m, Zero)
    THEN [obj |-> NoObject, ret |-> Raised("ValueError")]
    ELSE [obj |-> [cls |-> "PyLCG", a |-> a, c |-> c, m |-> m, x |-> seed],
          ret |-> NoReturn]

\* CyLCG.__cinit__; the arguments are C longs
CyLCG_cinit(a, c, m, seed) ==
    IF ZLeq(m, Zero)
    THEN [obj |-> NoObject, ret |-> Raised("ValueError")]
    ELSE [obj |-> [cls |-> "CyLCG", a |-> a, c |-> c, m |-> m, x |-> seed],
          ret |-> NoReturn]

Construct(cls, a, c, m, seed) ==
    IF cls = "PyLCG" THEN PyLCG_init(a, c, m, seed)
    ELSE CyLCG_cinit(a, c, m, seed)

\* Mutant of PyLCG_advance: the value after the update is returned
PyLCG_advance_post(g) ==
    [obj |-> [g EXCEPT !.x = PyMod(ZAdd(ZMul(g.a, g.x), g.c), g.m)],
     r   |-> PyMod(ZAdd(ZMul(g.a, g.x), g.c), g.m)]

\* Mutant of PyLCG_advance: a * (x + c) % m
PyLCG_advance_paren(g) ==
    [obj |-> [g EXCEPT !.x = PyMod(ZMul(g.a, ZAdd(g.x, g.c)), g.m)],
     r   |-> g.x]

\* Mutant of PyLCG_advance: the increment c left out
PyLCG_advance_no_c(g) ==
    [obj |-> [g EXCEPT !.x = PyMod(ZMul(g.a, g.x), g.m)],
     r   |-> g.x]

\* PyLCG._advance
PyLCG_advance(g) ==
    [obj |-> [g EXCEPT !.x = PyMod(ZAdd(ZMul(g.a, g.x), g.c), g.m)],
     r   |-> g.x]

\* CyLCG._advance, under cdivision(True)
CyLCG_advance(g) ==
    [obj |-> [g EXCEPT !.x = CRem(CAdd(CMul(g.a, g.x), g.c), g.m)],
     r   |-> g.x]

\* self._advance()
advance(g) ==
    IF g.cls = "PyLCG" THEN PyLCG_advance(g) ELSE CyLCG_advance(g)

\* Mutant of randint_loop: each result is put in front of the earlier ones
RECURSIVE randint_loop_reversed(_, _, _)
randint_loop_reversed(s, n, acc) ==
    IF n = 1 THEN [obj |-> s.obj, r |-> <<s.r>> \o acc]
    ELSE randint_loop_reversed(advance(s.obj), n - 1, <<s.r>> \o acc)

\* the loop of randint(size=n): n calls of _advance, results in call order;
\* s is what the call of _advance of this round gave
RECURSIVE randint_loop(_, _, _)
randint_loop(s, n, acc) ==
    IF n = 1 THEN [obj |-> s.obj, r |-> Append(acc, s.r)]
    ELSE randint_loop(advance(s.obj), n - 1, Append(acc, s.r))

\* randint(size); size is <<>> for None and <<n>> for n
randint(g, size) ==
    IF size = <<>> THEN advance(g)
    ELSE IF size[1] = 0 THEN [obj |-> g, r |-> <<>>]
    ELSE randint_loop(advance(g), size[1], <<>>)

(***************************************************************************)
(* The state machine.                                                      *)
(***************************************************************************)
Init ==
    /\ params \in Params
    /\ objs = [i \in Inst |-> NoObject]
    /\ out = [i \in Inst |-> <<>>]
    /\ call = NoCall
    /\ ret = NoReturn

\* Mutant of Finish: the fields are attributes of the class, shared by the
\* instances
Finish_shared(i, s, c) ==
    /\ objs' = [j \in Inst |-> IF j = i \/ objs[j] # NoObject THEN s.obj
                               ELSE objs[j]]
    /\ ret' = s.ret
    /\ out' = [out EXCEPT ![i] = @ \o s.ret.val]
    /\ call' = c
    /\ UNCHANGED params

\* the call c on instance i ended with s: the object as the call left it
\* and what the call returned
Finish(i, s, c) ==
    /\ objs' = [objs EXCEPT ![i] = s.obj]
    /\ ret' = s.ret
    /\ out' = [out EXCEPT ![i] = @ \o s.ret.val]
    /\ call' = c
    /\ UNCHANGED params

\* a call that returns the integer s.r
ReturnsInt(s) == [obj |-> s.obj, ret |-> Returned(<<s.r>>, TRUE)]

\* a call that returns the array s.r
ReturnsArray(s) == [obj |-> s.obj, ret |-> Returned(s.r, FALSE)]

\* rng = cls(a, c, m, seed)
New(i, cls) ==
    /\ objs[i] = NoObject
    /\ Finish(i, Construct(cls, params.a, params.c, params.m, params.seed),
              [inst |-> i, op |-> "new", size |-> <<>>, x0 |-> Zero])

\* rng._advance()
Advance(i) ==
    /\ objs[i] # NoObject
    /\ Len(out[i]) < MaxCalls
    /\ Finish(i, ReturnsInt(advance(objs[i])),
              [inst |-> i, op |-> "_advance", size |-> <<>>, x0 |-> objs[i].x])

\* rng.randint()
Randint(i) ==
    /\ objs[i] # NoObject
    /\ Len(out[i]) < MaxCalls
    /\ Finish(i, ReturnsInt(randint(objs[i], <<>>)),
              [inst |-> i, op |-> "randint", size |-> <<>>, x0 |-> objs[i].x])

\* rng.randint(size=n)
RandintSize(i, n) ==
    /\ objs[i] # NoObject
    /\ Len(out[i]) + n <= MaxCalls
    /\ Finish(i, ReturnsArray(randint(objs[i], <<n>>)),
              [inst |-> i, op |-> "randint", size |-> <<n>>,
               x0 |-> objs[i].x])

Next ==
    \/ \E i \in Inst : \E cls \in ClassesOf(i) : New(i, cls)
    \/ \E i \in Inst : Advance(i)
    \/ \E i \in Inst : Randint(i)
    \/ \E i \in Inst : \E n \in 0..MaxCalls : RandintSize(i, n)

Spec == Init /\ [][Next]_vars

(***************************************************************************)
(* Vocabulary of the properties.                                           *)
(***************************************************************************)
Constructed(i) == objs[i] # NoObject

InRange(v, m) == ZLeq(Zero, v) /\ ZLess(v, m)

\* (a * x + c) mod m, the mathematical modulus (Python's % for m > 0)
Recurrence(a, c, m, x) == PyMod(ZAdd(ZMul(a, x), c), m)

Prefix(s, t) == Len(s) <= Len(t) /\ SubSeq(t, 1, Len(s)) = s

Comparable(s, t) == Prefix(s, t) \/ Prefix(t, s)

IsDefault ==
    /\ params.a = ZOf(DefaultA)
    /\ params.c = ZOf(DefaultC)
    /\ params.m = DefaultM
    /\ InRange(params.seed, DefaultM)

\* the last call was op on a constructed instance
Called(op) == call.inst \in Inst /\ call.op = op

\* the object the last call acted on, as it was before the call
Before == [objs[call.inst] EXCEPT !.x = call.x0]

\* the value of an integer of at most one digit
ToInt(z) == IF z.mag = <<>> THEN 0 ELSE IF z.neg THEN 0 - z.mag[1] ELSE z.mag[1]

OneDigit(z) == Len(z.mag) <= 1

RECURSIVE Gcd(_, _)
Gcd(x, y) == IF y = 0 THEN x ELSE Gcd(y, x % y)

IsPrime(p) == p > 1 /\ \A d \in 2..(p - 1) : p % d # 0

\* the conditions of the Hull-Dobell theorem, for m > 0
HullDobell(a, c, m) ==
    /\ Gcd(IF c < 0 THEN 0 - c ELSE c, m) = 1
    /\ \A p \in 2..m : (IsPrime(p) /\ m % p = 0) => (a - 1) % p = 0
    /\ m % 4 = 0 => (a - 1) % 4 = 0

\* n single calls randint() one after the other, starting from the object g
RECURSIVE Singles(_, _, _)
Singles(g, n, acc) ==
    IF n = 0 THEN [obj |-> g, r |-> acc]
    ELSE Singles(randint(g, <<>>).obj, n - 1, Append(acc, randint(g, <<>>).r))

(***************************************************************************)
(* C1: one call of _advance returns the x held before the call and leaves  *)
(* x = (a * x + c) mod m, for PyLCG and for CyLCG.                         *)
(***************************************************************************)
C1_AdvanceIsRecurrence ==
    Called("_advance") =>
        /\ ret = Returned(<<call.x0>>, TRUE)
        /\ objs[call.inst].x = Recurrence(params.a, params.c, params.m, call.x0)
        /\ objs[call.inst].a = params.a
        /\ objs[call.inst].c = params.c
        /\ objs[call.inst].m = params.m

(***************************************************************************)
(* C2: every value ever returned, the first included, lies in [0, m),      *)
(* whatever the signs and sizes of a, c and the seed.                      *)
(***************************************************************************)
C2_ReturnedInRange ==
    \A i \in Inst : \A k \in 1..Len(out[i]) : InRange(out[i][k], params.m)

(***************************************************************************)
(* C3: construction with m <= 0 raises ValueError and leaves no generator; *)
(* with m > 0 it succeeds whatever the signs of a, c and the seed, and the *)
(* generator holds a, c, m and x = seed.                                   *)
(***************************************************************************)
C3_Construction ==
    Called("new") =>
        IF ZLeq(params.m, Zero)
        THEN ret = Raised("ValueError") /\ ~Constructed(call.inst)
        ELSE /\ ret.exc = "none"
             /\ Constructed(call.inst)
             /\ objs[call.inst].x = params.seed
             /\ objs[call.inst].a = params.a
             /\ objs[call.inst].c = params.c
             /\ objs[call.inst].m = params.m

C3_Witness ==
    /\ Called("new")
    /\ params.m = Zero
    /\ params.a.neg
    /\ call.inst = 2
    /\ ret.exc = "ValueError"

(***************************************************************************)
(* C4: randint(size=N) returns exactly N values, the ones N single calls   *)
(* randint() from the same state return, in the same order, and leaves the *)
(* generator where those N calls leave it; N = 0 gives the empty array and *)
(* leaves x alone.                                                         *)
(***************************************************************************)
SameAsSingles(s, n) ==
    /\ ret = Returned(s.r, FALSE)
    /\ Len(ret.val) = n
    /\ objs[call.inst] = s.obj
    /\ n = 0 => objs[call.inst].x = call.x0

C4_BatchIsSingles ==
    (Called("randint") /\ call.size # <<>>) =>
        SameAsSingles(Singles(Before, call.size[1], <<>>), call.size[1])

C4_Witness ==
    /\ Called("randint")
    /\ call.size = <<3>>
    /\ Len(ret.val) = 3
    /\ ret.val[1] # ret.val[2]
    /\ ret.val[2] # ret.val[3]
    /\ ret.val[1] # ret.val[3]

(***************************************************************************)
(* C5: with a = 1664525, c = 1013904223, m = 2**32 and seed 42, the first  *)
(* call randint(size=3) returns 42, then 1084822493, then the recurrence   *)
(* applied to the second value.                                            *)
(***************************************************************************)
Scenario42 ==
    /\ IsDefault
    /\ params.seed = ZOf(42)
    /\ Called("randint")
    /\ call.size = <<3>>
    /\ Len(out[call.inst]) = 3

C5_Original ==
    Scenario42 =>
        /\ Len(ret.val) = 3
        /\ ret.val[1] = ZOf(42)
        /\ ret.val[2] = ZOf(1084822493)
        /\ ret.val[3] = Recurrence(params.a, params.c, params.m, ret.val[2])

\* C5 as amended: the values are 42, 1083814273 and 378494188
C5_Amended ==
    Scenario42 =>
        ret = Returned(<<ZOf(42), ZOf(1083814273), ZOf(378494188)>>, FALSE)

C5_Witness == Scenario42 /\ call.inst = 1

(***************************************************************************)
(* C6: with the default a, c, m and seed 0 the first value returned is 0   *)
(* and the second is 1013904223.                                           *)
(***************************************************************************)
C6_DefaultSeedZero ==
    (IsDefault /\ params.seed = ZOf(DefaultSeed)) =>
        \A i \in Inst :
            /\ Len(out[i]) >= 1 => out[i][1] = ZOf(0)
            /\ Len(out[i]) >= 2 => out[i][2] = ZOf(1013904223)

C6_Witness ==
    /\ IsDefault
    /\ params.seed = ZOf(DefaultSeed)
    /\ Called("_advance")
    /\ Len(out[1]) = 2
    /\ Len(out[2]) = 2

(***************************************************************************)
(* C7: two generators of one class built from the same arguments return    *)
(* the same values call after call and hold the same x after the same      *)
(* number of values, however the calls on the two are interleaved and      *)
(* grouped.                                                                *)
(***************************************************************************)
C7_Determinism ==
    \A i \in Inst : \A j \in Inst :
        (Constructed(i) /\ objs[i].cls = objs[j].cls) =>
            /\ Comparable(out[i], out[j])
            /\ Len(out[i]) = Len(out[j]) => objs[i] = objs[j]

C7_Witness ==
    /\ objs[1].cls = "PyLCG"
    /\ objs[2].cls = "PyLCG"
    /\ Len(out[1]) = 3
    /\ Len(out[2]) = 3
    /\ out[1][1] # out[1][2]
    /\ out[1][2] # out[1][3]
    /\ Called("randint")
    /\ call.size = <<2>>

(***************************************************************************)
(* C8: with the default a, c, m and a seed in [0, 2**32) the CyLCG returns *)
(* the values the PyLCG returns, and a * x + c stays below 2**63 in every  *)
(* state the CyLCG reaches.                                                *)
(***************************************************************************)
C8_CyMatchesPy ==
    IsDefault =>
        \A i \in Inst :
            objs[i].cls = "CyLCG" =>
                /\ ZLess(ZAdd(ZMul(objs[i].a, objs[i].x), objs[i].c),
                         Z(FALSE, SignBit(LongBytes)))
                /\ InRange(objs[i].x, DefaultM)
                /\ \A j \in Inst :
                       objs[j].cls = "PyLCG" =>
                           /\ Comparable(out[i], out[j])
                           /\ Len(out[i]) = Len(out[j]) => objs[i].x = objs[j].x

C8_Witness ==
    /\ IsDefault
    /\ params.seed = ZAdd(DefaultM, ZOf(-1))
    /\ objs[1].cls = "PyLCG"
    /\ objs[2].cls = "CyLCG"
    /\ Len(out[1]) = 3
    /\ Len(out[2]) = 3

(***************************************************************************)
(* C9: for a, c, m that satisfy the Hull-Dobell conditions and a seed in   *)
(* [0, m), m calls on a PyLCG return every value of [0, m) exactly once,   *)
(* and x is back at the seed after m calls and not before.                 *)
(***************************************************************************)
FullPeriod(i, m, n) ==
    /\ \A j \in 1..n : \A k \in 1..n : (j < k /\ k <= m) => out[i][j] # out[i][k]
    /\ n >= m => {out[i][k] : k \in 1..m} = {ZOf(v) : v \in 0..(m - 1)}
    /\ n = m => objs[i].x = params.seed
    /\ n > m => out[i][m + 1] = params.seed
    /\ (1 <= n /\ n < m) => objs[i].x # params.seed

HullDobellParams ==
    /\ OneDigit(params.a) /\ OneDigit(params.c) /\ OneDigit(params.m)
    /\ ToInt(params.m) > 0
    /\ HullDobell(ToInt(params.a), ToInt(params.c), ToInt(params.m))
    /\ InRange(params.seed, params.m)

C10_NonNegativeUpdate ==
    (params.a.neg \/ params.c.neg \/ params.seed.neg) =>
        /\ \A i \in Inst :
               Len(out[i]) >= 1 => InRange(objs[i].x, params.m)
        /\ (Len(out[1]) = Len(out[2]) /\ Constructed(1) /\ Constructed(2))
               => objs[1].x = objs[2].x

=============================================================================
